---------------------------- MODULE Spec2Model ----------------------------
(***************************************************************************)
(* Conversation orchestration engine of the camera-feed query assistant:   *)
(* the in-memory conversation store (graph_service.py), the LangGraph      *)
(* workflow start -> [summarize] -> mcp_client -> END (graph_service.py,   *)
(* nodes.py) and GraphWithMemory.invoke, which wraps one turn with a       *)
(* history read before and two store writes around the graph run.          *)
(*                                                                         *)
(* Several specifications share the variables:                             *)
(*   SpecStore    the store's two operations, each as one atomic step      *)
(*   SpecLock     the same operations statement by statement under         *)
(*                memory_lock, called from concurrent threads              *)
(*   SpecNode     summarize_conversation applied to drawn AgentStates      *)
(*   SpecOrch     mcp_client_node applied to drawn AgentStates             *)
(*   SpecChat     requests posted to the /chat entry point                 *)
(*   SpecText     the text cleaners of nodes.py applied to drawn texts     *)
(*   SpecClient   calls of the tool client, over the ways a request ends   *)
(*   SpecAgent    the QueryAgentService workflow, node by node             *)
(*   SpecSummary  whole turns, with the summaries produced noted           *)
(*   SpecLong     long runs of turns on one thread                         *)
(*   Spec         whole turns through GraphWithMemory.invoke, one caller   *)
(*   SpecCallers  whole turns, two callers at the same time                *)
(***************************************************************************)
EXTENDS Integers, Sequences, FiniteSets

VARIABLES
    conversation_memory, \* graph_service.py:26  thread_id -> list of stored dicts
    appended,            \* history variable: everything ever appended, per thread
    ret,                 \* SpecStore: what the last store operation returned
    memory_lock,         \* SpecLock: graph_service.py:27, the holder or NoOne
    proc,                \* SpecLock: per calling thread, its position and locals
    node,                \* SpecNode: the AgentState given to the node, and its output
    turn,                \* Spec: per caller, the turn it is running
    turns                \* Spec: number of turns started so far, per thread

vars == <<conversation_memory, appended, ret, memory_lock, proc, node, turn, turns>>

storeVars == <<conversation_memory, appended, ret>>
lockVars == <<memory_lock, proc>>
turnVars == <<turn, turns>>

---------------------------------------------------------------------------
(* Program constants *)

\* graph_service.py:62-63  "Keep only the last 50 messages per thread"
MaxStored == 50
\* graph_service.py:29  limit: int = 20
DefaultLimit == 20
\* nodes.py:402  "If more than 5 messages, we need to summarize first"
SummarizeOver == 5

(* Bounds of the model *)

\* appends made to the long thread in SpecStore (more than MaxStored)
MaxAppends == 52
\* appends made to the other thread in SpecStore
MaxShort == 2
\* messages of an AgentState drawn in SpecNode
MaxMsgs == 6
\* store operations started in SpecLock
MaxOps == 3
\* turns started on the thread "default" in Spec
MaxTurns == 4
\* turns started on the other thread in Spec
MaxOther == 1
\* turns started in SpecCallers
MaxRace == 3
\* messages of an AgentState drawn in SpecOrch
MaxOrchMsgs == 2
\* requests posted in SpecChat
MaxPosts == 2
\* turns started on the thread "default" in SpecSummary
MaxSumTurns == 5
\* turns started on the thread "default" in SpecLong (more than MaxStored / 2)
MaxLongTurns == 26
\* turns that fail in a run of SpecLong
MaxFailed == 1
\* calls of the tool client in SpecClient
MaxClientCalls == 2
\* category words in a classification text in SpecAgent
MaxWords == 1
\* tokens of a text given to clean_sql_result_formatting in SpecText
MaxSqlText == 4
\* tokens of a text given to the context-retrieval cleaning in SpecText
MaxRagText == 3

ThreadIds == {"default", "t1"}
Roles == {"user", "assistant"}
NoOne == "none"

Max(a, b) == IF a > b THEN a ELSE b
Min(a, b) == IF a < b THEN a ELSE b

---------------------------------------------------------------------------
(* Python list slices, as the code uses them *)

\* s[-k:] for k >= 0.  Python reads -0 as 0, so s[-0:] is the whole list.
PyLast(s, k) ==
    IF k = 0 THEN s
    ELSE SubSeq(s, Max(Len(s) - k, 0) + 1, Len(s))

\* s[:-k] for k > 0
PyDropLast(s, k) == SubSeq(s, 1, Max(Len(s) - k, 0))

\* The k most recent entries of s (all of s when it has fewer): what a caller
\* who asks for "at most k, the most recent" is entitled to.
LastN(s, k) == SubSeq(s, Max(Len(s) - k, 0) + 1, Len(s))

---------------------------------------------------------------------------
(* The conversation store: graph_service.py:26-63 *)

\* A stored entry.  The "timestamp" key (str(datetime.now())) is written at
\* line 58 and read nowhere; it is left out.
Stored(role, content) == [role |-> role, content |-> content]

\* graph_service.py:38-45: the conversion of stored entries to LangChain
\* messages.  An entry whose role is neither "user" nor "assistant" is skipped.
RECURSIVE ToMessages(_)
ToMessages(history) ==
    IF history = <<>> THEN <<>>
    ELSE LET msg == Head(history)
             rest == ToMessages(Tail(history))
         IN IF msg.role = "user"
            THEN <<[type |-> "human", content |-> msg.content, id |-> 0]>> \o rest
            ELSE IF msg.role = "assistant"
            THEN <<[type |-> "ai", content |-> msg.content, id |-> 0]>> \o rest
            ELSE rest

\* The read with no limit applied
SelectWholeHistory(entries, limit) == entries

\* graph_service.py:36: the entries selected for a read
SelectHistory(entries, limit) ==
    IF Len(entries) > limit THEN PyLast(entries, limit) ELSE entries

\* The read with the caller's limit dropped for the default of 20
GetHistoryDefaultLimit(mem, thread_id, limit) ==
    IF thread_id \notin DOMAIN mem
    THEN <<>>
    ELSE ToMessages(SelectHistory(mem[thread_id], DefaultLimit))

\* graph_service.py:29-47
get_conversation_history(mem, thread_id, limit) ==
    IF thread_id \notin DOMAIN mem
    THEN <<>>
    ELSE ToMessages(SelectHistory(mem[thread_id], limit))

\* The trim with the slice taken from the wrong end ([:50] for [-50:])
TrimKeepsOldest(entries) ==
    IF Len(entries) > MaxStored THEN SubSeq(entries, 1, MaxStored) ELSE entries

\* graph_service.py:62-63: the trim after an append

Trim(entries) ==
    IF Len(entries) > MaxStored THEN PyLast(entries, MaxStored) ELSE entries

\* graph_service.py:52-53: the key is created on first use
WithKey(mem, thread_id) ==
    [t \in DOMAIN mem \cup {thread_id} |->
        IF t \in DOMAIN mem THEN mem[t] ELSE <<>>]

\* The append made to one list that every thread's key names
SaveToSharedList(mem, thread_id, role, content) ==
    LET m0 == WithKey(mem, thread_id)
    IN [t \in DOMAIN m0 |-> Trim(Append(m0[t], Stored(role, content)))]

\* graph_service.py:49-63
save_message(mem, thread_id, role, content) ==
    LET m0 == WithKey(mem, thread_id)
        m1 == [m0 EXCEPT ![thread_id] = Append(@, Stored(role, content))]
    IN [m1 EXCEPT ![thread_id] = Trim(@)]

\* The stored list of a thread, empty when the key is absent
HistoryOf(mem, t) == IF t \in DOMAIN mem THEN mem[t] ELSE <<>>

\* history variable: one more entry appended to thread t
Logged(log, t, role, content) ==
    [log EXCEPT ![t] = Append(@, Stored(role, content))]

---------------------------------------------------------------------------
(* Initial values shared by the specifications *)

NoRet == [op |-> "none"]
IdleProc == [pc |-> "idle", calls |-> 0]
NoNode == [pc |-> "none"]
Callers == {"c1", "c2"}
IdleTurn == [pc |-> "idle"]

\* graph_service.py:26: the store starts as the empty dict
InitStore ==
    /\ conversation_memory = [t \in {} |-> <<>>]
    /\ appended = [t \in ThreadIds |-> <<>>]
    /\ ret = NoRet

InitLockVars ==
    /\ memory_lock = NoOne
    /\ proc = [p \in Callers |-> IdleProc]

InitTurnVars ==
    /\ turn = [c \in Callers |-> IdleTurn]
    /\ turns = [t \in ThreadIds |-> 0]

InitCommon ==
    /\ InitStore
    /\ InitLockVars
    /\ node = NoNode
    /\ InitTurnVars

---------------------------------------------------------------------------
(* SpecStore: sequences of store operations, one thread of control.        *)
(* The long thread "default" receives user and assistant entries           *)
(* alternately, as a run of turns writes them; the other thread receives   *)
(* entries of either role.  Each entry's content is its own serial number, *)
(* so that order and identity are visible.                                 *)

Limits == {0, 1, 2, DefaultLimit, MaxStored, MaxStored + 1}

Text(n) == [turn |-> n, text |-> "text"]

NextRole(log) ==
    IF log = <<>> \/ log[Len(log)].role = "assistant" THEN "user" ELSE "assistant"

StoreSave(t, role) ==
    LET content == Text(Len(appended[t]) + 1)
    IN /\ IF t = "default"
          THEN Len(appended[t]) < MaxAppends /\ role = NextRole(appended[t])
          ELSE Len(appended[t]) < MaxShort
       /\ conversation_memory' = save_message(conversation_memory, t, role, content)
       /\ appended' = Logged(appended, t, role, content)
       /\ ret' = [op |-> "save", thread |-> t]
       /\ UNCHANGED <<lockVars, node, turnVars>>

StoreGet(t, limit) ==
    /\ ret' = [op |-> "get", thread |-> t, limit |-> limit,
               messages |-> get_conversation_history(conversation_memory, t, limit)]
    /\ UNCHANGED <<conversation_memory, appended, lockVars, node, turnVars>>

NextStore ==
    \/ \E t \in ThreadIds, role \in Roles : StoreSave(t, role)
    \/ \E t \in ThreadIds, limit \in Limits : StoreGet(t, limit)

SpecStore == InitCommon /\ [][NextStore]_vars

---------------------------------------------------------------------------
(* What a reader of the store is entitled to: the entries of a log, each   *)
(* as the message of its role, in the log's order.                         *)

ExpectedMessages(log) ==
    [i \in 1..Len(log) |->
        [type |-> IF log[i].role = "user" THEN "human" ELSE "ai",
         content |-> log[i].content, id |-> 0]]

\* C1: after any sequence of save_message calls on any thread_ids, every
\* thread's stored history has at most 50 entries, and it is exactly the
\* most recent min(N, 50) of the N entries appended to the thread: an append
\* that would exceed 50 evicts the oldest entries, and only those.
C1_BoundedFifo ==
    \A t \in DOMAIN conversation_memory :
        /\ Len(conversation_memory[t]) <= MaxStored
        /\ Len(conversation_memory[t]) = Min(Len(appended[t]), MaxStored)
        /\ conversation_memory[t] = LastN(appended[t], MaxStored)

\* C1 witness: a save has just evicted; more than 50 were appended, 50 are kept
C1_Witness ==
    /\ ret.op = "save"
    /\ Len(appended[ret.thread]) > MaxStored
    /\ Len(conversation_memory[ret.thread]) = MaxStored

\* C2: after N sequential appends on one thread, a read with a limit of at
\* least 50 returns exactly min(N, 50) messages, the last min(N, 50)
\* appended, in their original order.
C2_ReadAfterAppends ==
    (ret.op = "get" /\ ret.limit >= MaxStored) =>
        /\ Len(ret.messages) = Min(Len(appended[ret.thread]), MaxStored)
        /\ ret.messages = ExpectedMessages(LastN(appended[ret.thread], MaxStored))

\* C2 witness: such a read after more than 50 appends
C2_Witness ==
    /\ ret.op = "get"
    /\ ret.limit >= MaxStored
    /\ Len(appended[ret.thread]) > MaxStored
    /\ Len(ret.messages) = MaxStored

\* C3 (as claimed): for every thread and every limit >= 0, limit = 0
\* included, a read returns at most `limit` messages, the most recent ones
\* in stored order, and the empty sequence for a thread never appended to.
C3_Claim ==
    ret.op = "get" =>
        /\ Len(ret.messages) <= ret.limit
        /\ ret.messages =
              ExpectedMessages(LastN(HistoryOf(conversation_memory, ret.thread), ret.limit))
        /\ (appended[ret.thread] = <<>> => ret.messages = <<>>)

---------------------------------------------------------------------------
(* The AgentState and its messages reducer: models/state_models.py:10-14.  *)
(* A message is [type, content, id]; id 0 stands for "no id yet" and a     *)
(* RemoveMessage is [type |-> "remove", id].                               *)

RECURSIVE MaxId(_)
MaxId(msgs) ==
    IF msgs = <<>> THEN 0 ELSE Max(Head(msgs).id, MaxId(Tail(msgs)))

\* add_messages gives every message that has no id a fresh one (a uuid4:
\* here the next unused number)
WithIds(msgs, base) ==
    [i \in 1..Len(msgs) |->
        IF msgs[i].id = 0 THEN [msgs[i] EXCEPT !.id = base + i] ELSE msgs[i]]

\* state_models.py:12  Annotated[List[BaseMessage], add_messages]: the
\* update `right` is merged into `left`; a RemoveMessage deletes the message
\* of its id, any other message is appended.
add_messages(left, right) ==
    LET removed == {right[i].id : i \in {j \in 1..Len(right) : right[j].type = "remove"}}
        added == SelectSeq(right, LAMBDA m : m.type # "remove")
        kept == SelectSeq(left, LAMBDA m : m.id \notin removed)
    IN kept \o WithIds(added, Max(MaxId(left), MaxId(added)))

\* A node's return value applied to the state: `messages` through the
\* reducer, `summary` overwritten when the update holds the key.
Updated(state, update) ==
    [messages |-> add_messages(state.messages, update.messages),
     summary |-> IF update.has_summary THEN update.summary ELSE state.summary]

---------------------------------------------------------------------------
(* Nodes and the edge function: nodes.py *)

\* nodes.py:18-22
start_node(state) == state

\* nodes.py:397-405
route_after_start(state) ==
    IF Len(state.messages) > SummarizeOver THEN "summarize" ELSE "mcp_client"

\* nodes.py:33-39: which request the summarization prompt makes
SummaryPrompt(state) == IF state.summary # "" THEN "extend" ELSE "create"

\* The deletion with the slice taken from the wrong end ([2:] for [:-2])
DeleteAllButFirstTwo(messages) ==
    [i \in 1..Max(Len(messages) - 2, 0) |->
        [type |-> "remove", id |-> messages[i + 2].id]]

\* nodes.py:46: RemoveMessage for all but the 2 most recent messages

DeleteMessages(messages) ==
    LET old == PyDropLast(messages, 2)
    IN [i \in 1..Len(old) |-> [type |-> "remove", id |-> old[i].id]]

\* nodes.py:25-48, given the text the model call at line 43 returned
summarize_conversation(state, response) ==
    [has_summary |-> TRUE, summary |-> response,
     messages |-> DeleteMessages(state.messages)]

---------------------------------------------------------------------------
(* SpecNode: summarize_conversation applied once to an AgentState drawn    *)
(* in Init: 0..MaxMsgs messages of either type, ids already given by the   *)
(* reducer, with or without an earlier summary.  The model call at line 43 *)
(* either returns a text or raises.                                        *)

MsgTypes == {"human", "ai"}
SummaryTexts == {"summary-a", "summary-b"}

DrawnMessages(types) ==
    [i \in 1..Len(types) |-> [type |-> types[i], content |-> Text(i), id |-> i]]

DrawnStates ==
    UNION {{[messages |-> DrawnMessages(types), summary |-> sm] :
              types \in [1..k -> MsgTypes], sm \in {"", "earlier"}} : k \in 0..MaxMsgs}

InitNode ==
    /\ InitStore
    /\ InitLockVars
    /\ InitTurnVars
    /\ node \in {[pc |-> "input", state |-> st] : st \in DrawnStates}

NodeSummarizeReturns(response) ==
    /\ node.pc = "input"
    /\ node' = [pc |-> "output", input |-> node.state,
                prompt |-> SummaryPrompt(node.state), response |-> response,
                state |-> Updated(node.state,
                                  summarize_conversation(node.state, response))]
    /\ UNCHANGED <<storeVars, lockVars, turnVars>>

NodeSummarizeRaises ==
    /\ node.pc = "input"
    /\ node' = [pc |-> "raised", input |-> node.state,
                prompt |-> SummaryPrompt(node.state)]
    /\ UNCHANGED <<storeVars, lockVars, turnVars>>

NextNode ==
    \/ \E response \in SummaryTexts : NodeSummarizeReturns(response)
    \/ NodeSummarizeRaises

SpecNode == InitNode /\ [][NextNode]_vars

\* C5: after Summarize has run on an AgentState of k messages, the messages
\* are exactly the last two of the input, in their order (two messages when
\* k > 2, the input unchanged when k <= 2), and `summary` is the text the
\* model returned.
C5_SummarizeKeepsLastTwo ==
    node.pc = "output" =>
        LET k == Len(node.input.messages)
        IN /\ node.state.messages = LastN(node.input.messages, 2)
           /\ (k > 2 => Len(node.state.messages) = 2)
           /\ (k <= 2 => node.state.messages = node.input.messages)
           /\ node.state.summary = node.response

\* C5 witness: Summarize has run on more than five messages, with an
\* earlier summary that the returned text replaced
C5_Witness ==
    /\ node.pc = "output"
    /\ Len(node.input.messages) > SummarizeOver
    /\ Len(node.state.messages) = 2
    /\ node.input.summary = "earlier"
    /\ node.state.summary = "summary-b"

---------------------------------------------------------------------------
(* The orchestrating node: nodes.py:51-298.  Every call that leaves the    *)
(* process is an input of the turn: what the model replied to the          *)
(* classification prompt, how each tool call ended, whether the model      *)
(* calls for the query and for the final answer returned or raised.        *)

Intents == {"general_greeting", "metadata_query", "data_query", "small_talk"}

\* The reply to the classification prompt (nodes.py:155): the call raises,
\* or returns the JSON record asked for, or prose, or JSON that is no record,
\* or a record without the "intent" key.
IntentReplies ==
    {[kind |-> "raise"], [kind |-> "prose"], [kind |-> "not_a_record"],
     [kind |-> "no_intent_key"]}
    \cup {[kind |-> "record", intent |-> i] : i \in Intents}

\* How a tool call ends: the tool gives its result; it gives a result whose
\* text happens to hold "Error:"; the tool itself returns an error text
\* (tools.py:28, 67); the tool catches an exception of its own and returns
\* the text of its except branch (tools.py:47, 98); or the HTTP call of the
\* client fails (mcp_client.py:45-51, 79-85).
ToolOutcomes == {"ok", "ok_mentions_error", "reported_error", "tool_exception", "comm_error"}
LlmOutcomes == {"ok", "raise"}

\* The tools of the MCP server report their own failures (the last two)
ToolReported == {"reported_error", "tool_exception"}
\* The tool call gave the tool's result
ToolSucceeded == {"ok", "ok_mentions_error"}

\* tools.py:19-47: the text rag_query_tool returns; `marker` says whether the
\* substring "Error:" occurs in it.  The except branch returns
\* "Error executing RAG query: <e>", which does not hold it.
rag_query_tool(outcome) ==
    IF outcome = "reported_error" THEN [kind |-> "error", marker |-> TRUE]
    ELSE IF outcome = "tool_exception" THEN [kind |-> "error", marker |-> FALSE]
    ELSE [kind |-> "result", marker |-> outcome = "ok_mentions_error"]

\* tools.py:53-98: the text sql_query_tool returns.  The except branch
\* returns "SQL Query Error: <e>", which holds "Error:".
sql_query_tool(outcome) ==
    IF outcome \in ToolReported THEN [kind |-> "error", marker |-> TRUE]
    ELSE [kind |-> "result", marker |-> outcome = "ok_mentions_error"]

\* server.py:137-164: whatever text the tool returned is sent as a result,
\* success=True, error left null
call_tool(name, outcome) ==
    [result |-> IF name = "rag_query_tool" THEN rag_query_tool(outcome)
                ELSE sql_query_tool(outcome),
     error |-> "null"]

\* mcp_client.py:16-85: the response of the server, or {"error": ...} when
\* the HTTP call did not succeed
MCPClient(name, outcome) ==
    IF outcome = "comm_error"
    THEN [result |-> [kind |-> "none", marker |-> FALSE], error |-> "Connection error"]
    ELSE call_tool(name, outcome)

\* mcp_client.py:97-136: rag_query_via_mcp / sql_query_via_mcp return
\* "Error: ..." for a non-null error, else the result text
ViaMcp(name, outcome) ==
    LET result == MCPClient(name, outcome)
    IN IF result.error # "null"
       THEN [failed |-> TRUE, contains_error |-> TRUE]
       ELSE [failed |-> result.result.kind = "error",
             contains_error |-> result.result.marker]

\* The fallback taken for data_query instead of metadata_query
AnalyzeFallsBackToDataQuery(reply) ==
    IF reply.kind = "record"
    THEN [type |-> "record", has_intent |-> TRUE, intent |-> reply.intent, confidence |-> 90]
    ELSE IF reply.kind = "no_intent_key"
    THEN [type |-> "record", has_intent |-> FALSE, intent |-> "", confidence |-> 90]
    ELSE IF reply.kind = "not_a_record"
    THEN [type |-> "scalar", has_intent |-> FALSE, intent |-> "", confidence |-> 0]
    ELSE [type |-> "record", has_intent |-> TRUE, intent |-> "data_query", confidence |-> 50]

\* nodes.py:159-184: the value analyze_query_intent returns for a reply that
\* the model call at line 155 (outside the try) has returned.  json.loads
\* succeeds on any JSON text, and its value is returned as it is (line 179);
\* only a text that does not parse reaches the fallback of line 184.
\* Confidence is in hundredths (0.5 -> 50).
analyze_query_intent(reply) ==
    IF reply.kind = "record"
    THEN [type |-> "record", has_intent |-> TRUE, intent |-> reply.intent, confidence |-> 90]
    ELSE IF reply.kind = "no_intent_key"
    THEN [type |-> "record", has_intent |-> FALSE, intent |-> "", confidence |-> 90]
    ELSE IF reply.kind = "not_a_record"
    THEN [type |-> "scalar", has_intent |-> FALSE, intent |-> "", confidence |-> 0]
    ELSE [type |-> "record", has_intent |-> TRUE, intent |-> "metadata_query", confidence |-> 50]

\* nodes.py:187-213: "RAG Query Error: <text>" when the text holds "Error:",
\* else the text with its sources removed and its markdown cleaned
call_rag_tool(outcome) ==
    IF ViaMcp("rag_query_tool", outcome).contains_error
    THEN "rag_query_error" ELSE "rag_answer"

\* nodes.py:216-263: the text the model returned, fences stripped
formulate_sql_query(rag_context) == "sql_query"

\* nodes.py:266-298: "SQL Query Error: <text>" when the text holds "Error:",
\* else the text cleaned
call_sql_tool(outcome) ==
    IF ViaMcp("sql_query_tool", outcome).contains_error
    THEN "sql_query_error" ELSE "sql_result"

\* nodes.py:363-393: the model's answer, or on a raise the SQL text itself
generate_detailed_response(sql_text, outcome) ==
    IF outcome = "ok" THEN "synthesis" ELSE sql_text

AiMessage(n, text) ==
    [type |-> "ai", content |-> [turn |-> n, text |-> text], id |-> 0]

\* One call that leaves the process, with what it was given and what came back
Step(call, input, output) == [call |-> call, input |-> input, output |-> output]

CallsOf(steps) == [i \in 1..Len(steps) |-> steps[i].call]

Answer(n, text, steps) ==
    [raised |-> FALSE, calls |-> CallsOf(steps), steps |-> steps,
     update |-> [has_summary |-> FALSE, summary |-> "", messages |-> <<AiMessage(n, text)>>]]

Raised(steps) == [raised |-> TRUE, calls |-> CallsOf(steps), steps |-> steps]

\* nodes.py:73, 155: the classification call
IntentStep(query, env) == Step("llm:intent", [query |-> query], env.reply.kind)

\* The greeting answered after a lookup in the knowledge corpus
GreetingLooksUp(n, query, env) ==
    Answer(n, "greeting",
           <<IntentStep(query, env),
             Step("tool:rag", [query |-> query], call_rag_tool(env.rag))>>)

\* nodes.py:76-78: the general_greeting branch
Greeting(n, query, env) == Answer(n, "greeting", <<IntentStep(query, env)>>)

\* nodes.py:80-85: the metadata_query branch
MetadataQuery(n, query, env) ==
    LET rag_response == call_rag_tool(env.rag)
    IN Answer(n, rag_response,
              <<IntentStep(query, env),
                Step("tool:rag", [query |-> query], rag_response)>>)

\* The data_query branch with the final answer synthesized from the context
\* text instead of the SQL result
DataQueryAnswersFromContext(n, query, env) ==
    LET rag_response == call_rag_tool(env.rag)
        rag_step == Step("tool:rag", [query |-> query], rag_response)
        sql_query == formulate_sql_query(rag_response)
        gen_input == [query |-> query, rag_context |-> rag_response]
        sql_result == call_sql_tool(env.sql)
        detailed_response == generate_detailed_response(rag_response, env.synth)
    IN IF env.sqlgen = "raise"
       THEN Raised(<<IntentStep(query, env), rag_step, Step("llm:sql", gen_input, "raised")>>)
       ELSE Answer(n, detailed_response,
                   <<IntentStep(query, env), rag_step,
                     Step("llm:sql", gen_input, sql_query),
                     Step("tool:sql", [sql_query |-> sql_query], sql_result),
                     Step("llm:synth", [query |-> query, sql_result |-> rag_response],
                          detailed_response)>>)

\* nodes.py:87-107: the data_query branch
DataQuery(n, query, env) ==
    LET rag_response == call_rag_tool(env.rag)
        rag_step == Step("tool:rag", [query |-> query], rag_response)
        sql_query == formulate_sql_query(rag_response)
        gen_input == [query |-> query, rag_context |-> rag_response]
        sql_result == call_sql_tool(env.sql)
        detailed_response == generate_detailed_response(sql_result, env.synth)
    IN IF env.sqlgen = "raise"
       THEN Raised(<<IntentStep(query, env), rag_step, Step("llm:sql", gen_input, "raised")>>)
       ELSE Answer(n, detailed_response,
                   <<IntentStep(query, env), rag_step,
                     Step("llm:sql", gen_input, sql_query),
                     Step("tool:sql", [sql_query |-> sql_query], sql_result),
                     Step("llm:synth", [query |-> query, sql_result |-> sql_result],
                          detailed_response)>>)

\* The last branch of the dispatch raising for a tag it does not know
UnknownIntentRaises(n, query, env) == Raised(<<IntentStep(query, env)>>)

\* nodes.py:109-111: the else branch of the dispatch
UnknownIntent(n, query, env) == Answer(n, "unknown_intent", <<IntentStep(query, env)>>)

\* nodes.py:51-114
mcp_client_node(state, n, env) ==
    IF state.messages = <<>>
    THEN Answer(n, "no_message", <<>>)
    ELSE IF state.messages[Len(state.messages)].type # "human"
    THEN Answer(n, "no_question", <<>>)
    ELSE LET query == state.messages[Len(state.messages)].content
         IN IF env.reply.kind = "raise"
            THEN Raised(<<Step("llm:intent", [query |-> query], "raised")>>)
            ELSE LET intent_analysis == analyze_query_intent(env.reply)
                 IN IF intent_analysis.type # "record" \/ ~intent_analysis.has_intent
                    THEN Raised(<<IntentStep(query, env)>>)  \* TypeError / KeyError at line 76
                    ELSE IF intent_analysis.intent = "general_greeting"
                    THEN Greeting(n, query, env)
                    ELSE IF intent_analysis.intent = "metadata_query"
                    THEN MetadataQuery(n, query, env)
                    ELSE IF intent_analysis.intent = "data_query"
                    THEN DataQuery(n, query, env)
                    ELSE UnknownIntent(n, query, env)

\* The inputs a reply makes the node consume: calls that are not made have
\* no outcome
EnvsFor(reply) ==
    LET intent == IF reply.kind = "record" THEN reply.intent
                  ELSE IF reply.kind = "prose" THEN "metadata_query" ELSE "none"
    IN {[reply |-> reply, rag |-> r, sqlgen |-> g, sql |-> q, synth |-> y] :
          r \in IF intent \in {"metadata_query", "data_query"} THEN ToolOutcomes ELSE {"unused"},
          g \in IF intent = "data_query" THEN LlmOutcomes ELSE {"unused"},
          q \in IF intent = "data_query" THEN ToolOutcomes ELSE {"unused"},
          y \in IF intent = "data_query" THEN LlmOutcomes ELSE {"unused"}}

Envs == UNION {EnvsFor(reply) : reply \in IntentReplies}

---------------------------------------------------------------------------
(* SpecOrch: mcp_client_node applied once to an AgentState drawn in Init   *)
(* (0..MaxOrchMsgs messages of either type, so that the state is empty,    *)
(* ends with an AI message or ends with the user's query), meeting every   *)
(* outcome in Envs.                                                        *)

OrchStates ==
    UNION {{[messages |-> DrawnMessages(types), summary |-> ""] :
              types \in [1..k -> MsgTypes]} : k \in 0..MaxOrchMsgs}

InitOrch ==
    /\ InitStore
    /\ InitLockVars
    /\ InitTurnVars
    /\ node \in {[pc |-> "input", state |-> st] : st \in OrchStates}

\* The node has a query to classify: the state ends with a HumanMessage
HasQuery(state) ==
    state.messages # <<>> /\ state.messages[Len(state.messages)].type = "human"

NodeOrchestrate(env) ==
    /\ node.pc = "input"
    /\ LET out == mcp_client_node(node.state, 1, env)
       IN node' = [pc |-> IF out.raised THEN "raised" ELSE "answered",
                   input |-> node.state, env |-> env,
                   analysis |-> IF HasQuery(node.state) /\ env.reply.kind # "raise"
                                THEN <<analyze_query_intent(env.reply)>> ELSE <<>>,
                   steps |-> out.steps,
                   answer |-> IF out.raised THEN <<>>
                              ELSE <<out.update.messages[1].content.text>>]
    /\ UNCHANGED <<storeVars, lockVars, turnVars>>

NextOrch == \E env \in Envs : NodeOrchestrate(env)

SpecOrch == InitOrch /\ [][NextOrch]_vars

\* The node has run and the classification call has returned a reply
Classified == node.pc \in {"answered", "raised"} /\ node.analysis # <<>>

\* The node has run and the reply was taken for intent i
ClassifiedAs(i) ==
    /\ Classified
    /\ node.analysis[1].type = "record" /\ node.analysis[1].has_intent
    /\ node.analysis[1].intent = i

TheQuery == node.input.messages[Len(node.input.messages)].content

Made(call) == \E i \in 1..Len(node.steps) : node.steps[i].call = call

Times(call) == Cardinality({i \in 1..Len(node.steps) : node.steps[i].call = call})

\* C11: when the classification model returns a payload that cannot be
\* parsed as a structured record (plain prose), the classifier yields intent
\* metadata_query with confidence 0.5 and never data_query, so the turn
\* makes no structured-query tool call.
C11_ProseFallsBackToMetadata ==
    (Classified /\ node.env.reply.kind = "prose") =>
        /\ node.analysis[1].intent = "metadata_query"
        /\ node.analysis[1].confidence = 50
        /\ node.analysis[1].intent # "data_query"
        /\ ~Made("tool:sql")

\* C11 witness: a prose reply was answered from the context retrieval alone
C11_Witness ==
    /\ node.pc = "answered"
    /\ node.env.reply.kind = "prose"
    /\ CallsOf(node.steps) = <<"llm:intent", "tool:rag">>

\* C12 (as claimed): for every text the classification model can return,
\* non-conforming text that parses but is no record with an intent field
\* included, the classifier defaults to metadata_query with confidence 0.5
\* and the turn completes with an answer.
C12_Claim ==
    (Classified /\ node.env.reply.kind \in {"prose", "not_a_record", "no_intent_key"}) =>
        /\ node.analysis[1].type = "record"
        /\ node.analysis[1].has_intent
        /\ node.analysis[1].intent = "metadata_query"
        /\ node.analysis[1].confidence = 50
        /\ node.pc = "answered"

\* No call of the data_query turn fails
NoCallFails ==
    /\ node.env.rag \in ToolSucceeded
    /\ node.env.sqlgen = "ok"
    /\ node.env.sql \in ToolSucceeded
    /\ node.env.synth = "ok"

\* C13: a data_query turn in which no call fails makes exactly one
\* context-retrieval call, then one query-generation model call, then one
\* structured-query call, then one synthesis model call, in that order, each
\* step given the output of the one before; the answer is the synthesis
\* output.
C13_DataQueryPipeline ==
    (ClassifiedAs("data_query") /\ NoCallFails) =>
        /\ node.pc = "answered"
        /\ CallsOf(node.steps) =
              <<"llm:intent", "tool:rag", "llm:sql", "tool:sql", "llm:synth">>
        /\ node.steps[2].input = [query |-> TheQuery]
        /\ node.steps[3].input = [query |-> TheQuery, rag_context |-> node.steps[2].output]
        /\ node.steps[4].input = [sql_query |-> node.steps[3].output]
        /\ node.steps[5].input = [query |-> TheQuery, sql_result |-> node.steps[4].output]
        /\ node.answer = <<node.steps[5].output>>
        /\ node.answer = <<"synthesis">>

\* C13 witness: such a turn has been answered
C13_Witness ==
    /\ ClassifiedAs("data_query")
    /\ NoCallFails
    /\ node.pc = "answered"
    /\ Len(node.steps) = 5

\* C14 (as claimed): in a data_query turn a failing call short-circuits the
\* remaining steps and its failure text is the answer: after a failed
\* context retrieval no query-generation and no structured-query call is
\* made; after a failed structured-query call no synthesis call is made and
\* the answer is the error-formatted failure text; nothing is retried.
C14_Claim ==
    ClassifiedAs("data_query") =>
        /\ node.env.rag \notin ToolSucceeded =>
              /\ ~Made("llm:sql") /\ ~Made("tool:sql") /\ ~Made("llm:synth")
              /\ node.answer = <<"rag_query_error">>
        /\ (node.env.rag \in ToolSucceeded /\ node.env.sqlgen = "ok"
              /\ node.env.sql \notin ToolSucceeded) =>
              /\ ~Made("llm:synth")
              /\ node.answer = <<"sql_query_error">>
        /\ \A i \in 1..Len(node.steps) : Times(node.steps[i].call) = 1

\* C15: a turn classified as greeting is answered with the fixed greeting
\* and makes no context-retrieval call and no structured-query call.
C15_GreetingNoToolCalls ==
    ClassifiedAs("general_greeting") =>
        /\ node.pc = "answered"
        /\ node.answer = <<"greeting">>
        /\ ~Made("tool:rag") /\ ~Made("tool:sql")
        /\ CallsOf(node.steps) = <<"llm:intent">>

\* C15 witness: a greeting has been answered
C15_Witness ==
    /\ ClassifiedAs("general_greeting")
    /\ node.answer = <<"greeting">>

\* C16 (as claimed): a turn classified as metadata_query makes exactly one
\* context-retrieval call with the raw user query, no structured-query call
\* and no query-generation or synthesis model call, and when the retrieval
\* gave its result the answer is that text, cleaned.
C16_Claim ==
    ClassifiedAs("metadata_query") =>
        /\ node.pc = "answered"
        /\ CallsOf(node.steps) = <<"llm:intent", "tool:rag">>
        /\ node.steps[2].input = [query |-> TheQuery]
        /\ node.answer = <<node.steps[2].output>>
        /\ node.env.rag \in ToolSucceeded => node.answer = <<"rag_answer">>

\* C17 (as claimed): whenever a tool itself reports an error, the call's
\* text is error-prefixed for the failing tool ("RAG Query Error" / "SQL
\* Query Error"), never cleaned as if it were a result, and a metadata_query
\* turn gives that error-prefixed text as its answer.
C17_Claim ==
    Classified =>
        /\ \A i \in 1..Len(node.steps) :
              /\ (node.steps[i].call = "tool:rag" /\ node.env.rag \in ToolReported) =>
                    node.steps[i].output = "rag_query_error"
              /\ (node.steps[i].call = "tool:sql" /\ node.env.sql \in ToolReported) =>
                    node.steps[i].output = "sql_query_error"
        /\ (ClassifiedAs("metadata_query") /\ node.env.rag \in ToolReported) =>
              node.answer = <<"rag_query_error">>

\* C27 (as claimed): call_rag_tool and call_sql_tool return their
\* error-prefixed text only if the tool invocation failed; the result of a
\* tool call that succeeded is passed on cleaned, whatever its text holds
\* (the substring "Error:" included).
C27_Claim ==
    Classified =>
        \A i \in 1..Len(node.steps) :
            /\ (node.steps[i].call = "tool:rag" /\ node.env.rag \in ToolSucceeded) =>
                  node.steps[i].output = "rag_answer"
            /\ (node.steps[i].call = "tool:sql" /\ node.env.sql \in ToolSucceeded) =>
                  node.steps[i].output = "sql_result"

\* C18: the dispatch is exhaustive: for an intent tag other than greeting,
\* metadata_query and data_query the answer is the fixed generic one, no
\* tool is called, and the turn does not fail.
C18_UnknownIntentAnswered ==
    (Classified /\ node.analysis[1].type = "record" /\ node.analysis[1].has_intent
       /\ node.analysis[1].intent \notin {"general_greeting", "metadata_query", "data_query"}) =>
        /\ node.pc = "answered"
        /\ node.answer = <<"unknown_intent">>
        /\ ~Made("tool:rag") /\ ~Made("tool:sql")
        /\ CallsOf(node.steps) = <<"llm:intent">>

\* C18 witness: a reply with another tag has been answered
C18_Witness ==
    /\ ClassifiedAs("small_talk")
    /\ node.pc = "answered"
    /\ node.answer = <<"unknown_intent">>

---------------------------------------------------------------------------
(* The compiled graph: graph_service.py:65-95.  One invocation runs        *)
(* start, then summarize when route_after_start says so, then mcp_client,  *)
(* then END; an exception in a node ends the invocation where it is        *)
(* raised.  `sum` is how the model call of summarize ends, `env` what      *)
(* mcp_client meets.                                                       *)

SumOutcomes == {[kind |-> "raise"]} \cup {[kind |-> "ok", text |-> x] : x \in SummaryTexts}

\* The outcomes the invocation consumes: none when summarize is not visited
SumsFor(messages) ==
    IF Len(messages) > SummarizeOver THEN SumOutcomes ELSE {[kind |-> "unused"]}

\* `entry` is the AgentState mcp_client was given, in a list that is empty
\* when the node was not reached
GraphFrom(state, n, env, path, calls) ==
    LET out == mcp_client_node(state, n, env)
    IN IF out.raised
       THEN [raised |-> TRUE, state |-> state, entry |-> <<state>>,
             path |-> Append(path, "mcp_client"), calls |-> calls \o out.calls]
       ELSE [raised |-> FALSE, state |-> Updated(state, out.update), entry |-> <<state>>,
             path |-> path \o <<"mcp_client", "END">>, calls |-> calls \o out.calls]

graph_invoke(input_state, n, sum, env) ==
    LET input == [input_state EXCEPT !.messages = add_messages(<<>>, @)]
        state == start_node(input)
    IN IF route_after_start(state) = "summarize"
       THEN IF sum.kind # "ok"
            THEN [raised |-> TRUE, state |-> state, entry |-> <<>>,
                  path |-> <<"start", "summarize">>, calls |-> <<"llm:summary">>]
            ELSE GraphFrom(Updated(state, summarize_conversation(state, sum.text)),
                           n, env, <<"start", "summarize">>, <<"llm:summary">>)
       ELSE GraphFrom(state, n, env, <<"start">>, <<>>)

---------------------------------------------------------------------------
(* Spec: turns through GraphWithMemory.invoke (graph_service.py:104-136),  *)
(* called as chatbot_controller.send_message calls it: one new             *)
(* HumanMessage, the thread_id in the config.  A caller's steps are the    *)
(* three store operations of invoke, each atomic under memory_lock, and    *)
(* the graph run between the second and the third, which touches nothing   *)
(* shared.  Turns are numbered per thread; the content of the user message *)
(* of turn n is Query(n) and the answer the graph gives in turn n carries  *)
(* n.                                                                      *)
(*   Spec         one caller runs turns one after another, on either       *)
(*                thread, the graph meeting every outcome in Envs          *)
(*   SpecCallers  two callers run turns at the same time; the graph        *)
(*                answers a greeting or its first model call raises        *)

Query(n) == [turn |-> n, text |-> "query"]
HumanMessage(n) == [type |-> "human", content |-> Query(n), id |-> 0]

\* The search of the result meeting no message it takes for an AI message
FirstAiNeverMatches(messages) == <<>>

\* graph_service.py:130-134: the content saved as the assistant's message is
\* that of the first AI message of the result, if there is one
FirstAi(messages) ==
    LET ais == SelectSeq(messages, LAMBDA m : m.type = "ai")
    IN IF ais = <<>> THEN <<>> ELSE <<Head(ais)>>

\* chatbot_controller.py:30-35: the reply is the content of the last message
ResponseText(messages) ==
    IF messages = <<>> THEN [turn |-> 0, text |-> "No response generated"]
    ELSE messages[Len(messages)].content

\* The merge with the new messages put before the history
NewMessagesFirst(history, messages) == messages \o history

\* graph_service.py:120-124: all_messages = history + input_state["messages"]
all_messages(history, messages) == history \o messages

TurnBound(t) == IF t = "default" THEN MaxTurns ELSE MaxOther

\* A caller is between turns: it has none, or its last one has ended
Free(c) == turn[c].pc \in {"idle", "returned", "raised"}

\* graph_service.py:106-112: the thread_id is read and the history loaded
Begin(c, t) ==
    /\ Free(c)
    /\ turns' = [turns EXCEPT ![t] = @ + 1]
    /\ turn' = [turn EXCEPT ![c] =
          [pc |-> "loaded", thread_id |-> t, n |-> turns[t] + 1,
           history |-> get_conversation_history(conversation_memory, t, DefaultLimit)]]
    /\ UNCHANGED <<storeVars, lockVars, node>>

\* graph_service.py:114-124: the new user message is saved, then history and
\* input are merged
SaveUser(c) ==
    /\ turn[c].pc = "loaded"
    /\ conversation_memory' =
          save_message(conversation_memory, turn[c].thread_id, "user", Query(turn[c].n))
    /\ appended' = Logged(appended, turn[c].thread_id, "user", Query(turn[c].n))
    /\ turn' = [turn EXCEPT ![c] =
          [pc |-> "merged", thread_id |-> turn[c].thread_id, n |-> turn[c].n,
           input |-> [messages |-> all_messages(turn[c].history,
                                                <<HumanMessage(turn[c].n)>>),
                      summary |-> ""]]]
    /\ UNCHANGED <<ret, turns, lockVars, node>>

\* graph_service.py:127: self.graph.invoke(input_state).  A raise leaves
\* invoke at once (chatbot_controller.py:42-43 turns it into an HTTP 500).
\* The caller's turn after a run that met `sum` and `env`:
Ran(c, sum, env) ==
    LET run == graph_invoke(turn[c].input, turn[c].n, sum, env)
    IN [pc |-> IF run.raised THEN "raised" ELSE "graph_done",
        thread_id |-> turn[c].thread_id, n |-> turn[c].n,
        count |-> Len(turn[c].input.messages), entry |-> run.entry,
        result |-> run.state, path |-> run.path, calls |-> run.calls]

RunGraph(c, envs) ==
    /\ turn[c].pc = "merged"
    /\ \E sum \in SumsFor(turn[c].input.messages), env \in envs :
          turn' = [turn EXCEPT ![c] = Ran(c, sum, env)]
    /\ UNCHANGED <<storeVars, turns, lockVars, node>>

\* graph_service.py:129-136 and chatbot_controller.py:29-40: the assistant's
\* message is saved, invoke returns, the controller builds its reply
SaveAi(c) ==
    /\ turn[c].pc = "graph_done"
    /\ LET first == FirstAi(turn[c].result.messages)
       IN /\ conversation_memory' =
                IF first = <<>> THEN conversation_memory
                ELSE save_message(conversation_memory, turn[c].thread_id,
                                  "assistant", first[1].content)
          /\ appended' =
                IF first = <<>> THEN appended
                ELSE Logged(appended, turn[c].thread_id, "assistant", first[1].content)
          /\ turn' = [turn EXCEPT ![c] =
                [pc |-> "returned", thread_id |-> turn[c].thread_id, n |-> turn[c].n,
                 count |-> turn[c].count, path |-> turn[c].path, calls |-> turn[c].calls,
                 saved |-> IF first = <<>> THEN <<>>
                           ELSE <<Stored("assistant", first[1].content)>>,
                 response |-> ResponseText(turn[c].result.messages)]]
    /\ UNCHANGED <<ret, turns, lockVars, node>>

Next ==
    \/ \E t \in ThreadIds : turns[t] < TurnBound(t) /\ Begin("c1", t)
    \/ SaveUser("c1")
    \/ RunGraph("c1", Envs)
    \/ SaveAi("c1")

Spec == InitCommon /\ [][Next]_vars

RaceEnvs ==
    EnvsFor([kind |-> "raise"]) \cup EnvsFor([kind |-> "record", intent |-> "general_greeting"])

TurnsStarted == turns["default"] + turns["t1"]

NextCallers ==
    \/ \E c \in Callers, t \in ThreadIds : TurnsStarted < MaxRace /\ Begin(c, t)
    \/ \E c \in Callers : SaveUser(c)
    \/ \E c \in Callers : RunGraph(c, RaceEnvs)
    \/ \E c \in Callers : SaveAi(c)

SpecCallers == InitCommon /\ [][NextCallers]_vars

---------------------------------------------------------------------------
(* Claims about whole turns *)

Ended(c) == turn[c].pc \in {"returned", "raised"}

ExpectedPath(count) ==
    IF count > SummarizeOver
    THEN <<"start", "summarize", "mcp_client", "END">>
    ELSE <<"start", "mcp_client", "END">>

\* C4 (as claimed): a turn visits Summarize if and only if the AgentState
\* holds more than 5 messages when Start finishes; its path is
\* Start -> Orchestrate -> End with at most 5 messages and
\* Start -> Summarize -> Orchestrate -> End with more; no node is visited
\* twice and every turn reaches End.
C4_Claim ==
    \A c \in Callers : Ended(c) => turn[c].path = ExpectedPath(turn[c].count)

\* C6 (as claimed): after every successful turn, the message appended to the
\* thread is the turn's final message: an assistant message whose content is
\* the answer Orchestrate produced in that same turn, the text returned to
\* the caller.
C6_Claim ==
    \A c \in Callers :
        turn[c].pc = "returned" =>
            /\ turn[c].response.turn = turn[c].n
            /\ turn[c].saved = <<Stored("assistant", turn[c].response)>>

\* The stored history of thread t holds an assistant entry for turn n
Answered(t, n) ==
    \E i \in 1..Len(HistoryOf(conversation_memory, t)) :
        /\ conversation_memory[t][i].role = "assistant"
        /\ conversation_memory[t][i].content.turn = n

\* The stored history of thread t holds the user entry of turn n
Asked(t, n) ==
    \E i \in 1..Len(HistoryOf(conversation_memory, t)) :
        conversation_memory[t][i] = Stored("user", Query(n))

\* C7 (as claimed): after a turn that failed inside a node, the thread's
\* stored history does not hold that turn's user message without an answer
\* message for it.
C7_Claim ==
    \A c \in Callers :
        turn[c].pc = "raised" =>
            (Asked(turn[c].thread_id, turn[c].n) => Answered(turn[c].thread_id, turn[c].n))

\* C8 (as claimed): whatever model call or tool call fails in a turn, the
\* graph invocation returns normally with an answer text; no exception
\* reaches the caller.
C8_Claim ==
    \A c \in Callers : turn[c].pc # "raised"

\* A caller is inside invoke's read-history -> run-workflow -> append sequence
InTurn(c) == turn[c].pc \in {"loaded", "merged", "graph_done"}

\* C9 (as claimed): two turns on the same thread_id are serialized over the
\* whole read-history -> run-workflow -> append sequence: the history read
\* of one turn sees both stored messages of the other turn or neither (it
\* does not hold the user message of a turn still under way), and the stored
\* messages of two turns do not interleave (two turns are never both between
\* their user append and their assistant append).
C9_Claim ==
    \A a \in Callers, b \in Callers :
        (a # b /\ InTurn(a) /\ InTurn(b) /\ turn[a].thread_id = turn[b].thread_id) =>
            /\ turn[a].pc = "loaded" =>
                  \A i \in 1..Len(turn[a].history) :
                      turn[a].history[i].content # Query(turn[b].n)
            /\ ~(turn[a].pc \in {"merged", "graph_done"}
                   /\ turn[b].pc \in {"merged", "graph_done"})

\* The last message of an AgentState is the user message of turn n
EndsWithQuestion(state, n) ==
    /\ state.messages # <<>>
    /\ state.messages[Len(state.messages)].type = "human"
    /\ state.messages[Len(state.messages)].content = Query(n)

\* C24: whenever mcp_client runs in a turn, the last message of the
\* AgentState it is given is that turn's user message, whether or not
\* summarize ran before it; the node never answers that there is no message
\* or no question to process.
C24_LastMessageIsTheQuestion ==
    \A c \in Callers :
        turn[c].pc \in {"graph_done", "raised"} =>
            /\ \A i \in 1..Len(turn[c].entry) : EndsWithQuestion(turn[c].entry[i], turn[c].n)
            /\ turn[c].pc = "graph_done" =>
                  ResponseText(turn[c].result.messages).text \notin {"no_question", "no_message"}

\* mcp_client has run after summarize cut the state down to two messages
C24_Witness ==
    /\ turn["c1"].pc = "graph_done"
    /\ turn["c1"].path = <<"start", "summarize", "mcp_client", "END">>
    /\ Len(turn["c1"].entry) = 1
    /\ Len(turn["c1"].entry[1].messages) = 2

\* Thread b's stored history differs before and after the step
StoredChanges(b) ==
    \/ (b \in DOMAIN conversation_memory') # (b \in DOMAIN conversation_memory)
    \/ HistoryOf(conversation_memory', b) # HistoryOf(conversation_memory, b)

\* Caller c takes the step, as one of the two appends of a turn on thread b
AppendsTo(c, b) ==
    /\ turn[c].pc \in {"loaded", "graph_done"}
    /\ turn[c].thread_id = b
    /\ turn'[c].pc # turn[c].pc

\* C23: threads are isolated.  With two callers running turns at the same
\* time, every step (a history read, an append, a graph run) leaves the
\* stored history of every thread unchanged, except the thread of the turn
\* whose append the step is.
C23_ThreadIsolation ==
    [][\A b \in ThreadIds :
          StoredChanges(b) => \E c \in Callers : AppendsTo(c, b)]_vars

\* A whole turn has ended on "default" while another caller is inside a turn
\* on "t1", whose stored history is exactly what that turn appended
C23_Witness ==
    /\ turn["c1"].pc = "returned" /\ turn["c1"].thread_id = "default"
    /\ turn["c2"].pc = "merged" /\ turn["c2"].thread_id = "t1"
    /\ HistoryOf(conversation_memory, "t1") = <<Stored("user", Query(turn["c2"].n))>>
    /\ Len(HistoryOf(conversation_memory, "default")) = 2

---------------------------------------------------------------------------
(* The conversation entry point: chatbot_controller.py:13-43, POST /chat,  *)
(* with the request and reply models of models/query_models.py.            *)

\* A request body: the query, and thread_id and include_metadata given or
\* left out
Bodies ==
    {[query |-> Query(n), thread_id |-> t, include_metadata |-> m] :
        n \in 1..2, t \in {"absent"} \cup ThreadIds, m \in {"absent", "true", "false"}}

\* query_models.py:9-11: the fields QueryRequest declares are `query` and
\* `include_metadata`; pydantic drops every other key of the body
QueryRequest(body) ==
    [query |-> body.query,
     include_metadata |-> IF body.include_metadata = "absent" THEN "false"
                          ELSE body.include_metadata]

\* query_models.py:13-17: QueryResponse declares `response` and three
\* optional fields; a thread_id keyword is dropped
QueryResponse(response, thread_id) ==
    [response |-> response, query_type |-> "null", execution_time |-> "null",
     metadata |-> "null"]

\* graph_service.py:129-136: the first AI message of the result, if there
\* is one, is saved as the assistant's message, and the result returned
InvokeSave(user, thread_id, query, result, first) ==
    IF first = <<>>
    THEN [raised |-> FALSE, mem |-> user, saved |-> <<Stored("user", query)>>,
          result |-> result]
    ELSE [raised |-> FALSE,
          mem |-> save_message(user, thread_id, "assistant", first[1].content),
          saved |-> <<Stored("user", query), Stored("assistant", first[1].content)>>,
          result |-> result]

\* graph_service.py:127-136: `user` is the store after the user message was
\* saved, `run` the graph run; a raise leaves invoke at line 127
InvokeEnd(user, thread_id, query, run) ==
    IF run.raised
    THEN [raised |-> TRUE, mem |-> user, saved |-> <<Stored("user", query)>>]
    ELSE InvokeSave(user, thread_id, query, run.state, FirstAi(run.state.messages))

\* graph_service.py:104-136 as one call: the store after it, the entries it
\* appended, and the result or the raise of the graph run
invoke(mem, thread_id, query, sum, env) ==
    InvokeEnd(save_message(mem, thread_id, "user", query), thread_id, query,
              graph_invoke(
                  [messages |-> get_conversation_history(mem, thread_id, DefaultLimit)
                                   \o <<[type |-> "human", content |-> query, id |-> 0]>>,
                   summary |-> ""],
                  query.turn, sum, env))

\* chatbot_controller.py:42-43: any exception becomes an HTTP 500
HttpError(mem, thread, saved) ==
    [status |-> 500, mem |-> mem, thread |-> thread, saved |-> saved]

\* chatbot_controller.py:29-43: the reply built from what invoke returned
Reply(thread_id, run) ==
    IF run.raised
    THEN HttpError(run.mem, thread_id, run.saved)
    ELSE [status |-> 200, mem |-> run.mem, thread |-> thread_id, saved |-> run.saved,
          reply |-> QueryResponse(ResponseText(run.result.messages), thread_id)]

\* chatbot_controller.py:18: request.thread_id or "default"
ThreadOf(request) ==
    IF request.thread_id = "absent" THEN "default" ELSE request.thread_id

\* chatbot_controller.py:13-43.  Line 18 reads request.thread_id: an
\* attribute the model does not have raises AttributeError inside the try.
HandleRequest(mem, request, sum, env) ==
    IF "thread_id" \notin DOMAIN request
    THEN HttpError(mem, "none", <<>>)
    ELSE Reply(ThreadOf(request),
               invoke(mem, ThreadOf(request), request.query, sum, env))

send_message(mem, body, sum, env) == HandleRequest(mem, QueryRequest(body), sum, env)

---------------------------------------------------------------------------
(* SpecChat: requests posted to /chat one after another.  `ret` holds the  *)
(* replies sent so far, each with the body it answers.                     *)

Replies == IF ret.op = "chat" THEN ret.replies ELSE <<>>

\* The reply is sent: the store is as the call left it, the reply is noted
Sent(body, out) ==
    /\ conversation_memory' = out.mem
    /\ appended' = IF out.saved = <<>> THEN appended
                   ELSE [appended EXCEPT ![out.thread] = @ \o out.saved]
    /\ ret' = [op |-> "chat",
               replies |-> Append(Replies,
                   [body |-> body, status |-> out.status, thread |-> out.thread,
                    reply |-> IF out.status = 200 THEN <<out.reply>> ELSE <<>>])]

Post(body) ==
    /\ Len(Replies) < MaxPosts
    /\ \E sum \in SumOutcomes, env \in RaceEnvs :
          Sent(body, send_message(conversation_memory, body, sum, env))
    /\ UNCHANGED <<lockVars, node, turnVars>>

NextChat == \E body \in Bodies : Post(body)

SpecChat == InitCommon /\ [][NextChat]_vars

\* C19 (as claimed): the entry point accepts {query, optional thread_id}; a
\* request without thread_id is processed on thread "default", a request
\* with thread_id t on thread t, and in both cases the call succeeds with a
\* reply {response, thread_id} whose thread_id is the thread used.
C19_Claim ==
    \A i \in 1..Len(Replies) :
        LET r == Replies[i]
            wanted == IF r.body.thread_id = "absent" THEN "default" ELSE r.body.thread_id
        IN /\ r.status = 200
           /\ r.thread = wanted
           /\ "thread_id" \in DOMAIN r.reply[1]
           /\ r.reply[1].thread_id = r.thread

---------------------------------------------------------------------------
(* SpecSummary: one caller runs turns one after another, the graph         *)
(* answering a greeting or its first model call raising.  `ret` is a       *)
(* history variable: per thread, the summary in the result of the last     *)
(* graph run that went through Summarize and reached END ("" when none     *)
(* has).                                                                   *)

Summaries == IF ret.op = "summaries" THEN ret.of ELSE [t \in ThreadIds |-> ""]

Summarized(path) == \E i \in 1..Len(path) : path[i] = "summarize"

\* The turn after a graph run, with what Summarize was given noted: `prior`
\* is the summary of the state it ran on (nodes.py:30), `prompt` the request
\* it made (nodes.py:33-39), `earlier` the summary an earlier turn of the
\* thread produced
Noted(ran, state, earlier) ==
    [pc |-> ran.pc, thread_id |-> ran.thread_id, n |-> ran.n, count |-> ran.count,
     result |-> ran.result, path |-> ran.path, calls |-> ran.calls,
     prior |-> state.summary, prompt |-> SummaryPrompt(state), earlier |-> earlier]

\* The summaries produced so far, after a graph run on thread t
NotedSummaries(ran, t) ==
    IF ran.pc = "graph_done" /\ Summarized(ran.path)
    THEN [op |-> "summaries", of |-> [Summaries EXCEPT ![t] = ran.result.summary]]
    ELSE ret

RanNoting(c, ran) ==
    /\ turn' = [turn EXCEPT ![c] =
          Noted(ran, start_node(turn[c].input), Summaries[turn[c].thread_id])]
    /\ ret' = NotedSummaries(ran, turn[c].thread_id)

\* RunGraph, noting the summaries
RunGraphNoting(c, envs) ==
    /\ turn[c].pc = "merged"
    /\ \E sum \in SumsFor(turn[c].input.messages), env \in envs :
          RanNoting(c, Ran(c, sum, env))
    /\ UNCHANGED <<conversation_memory, appended, turns, lockVars, node>>

SummaryTurnBound(t) == IF t = "default" THEN MaxSumTurns ELSE MaxOther

NextSummary ==
    \/ \E t \in ThreadIds : turns[t] < SummaryTurnBound(t) /\ Begin("c1", t)
    \/ SaveUser("c1")
    \/ RunGraphNoting("c1", RaceEnvs)
    \/ SaveAi("c1")

SpecSummary == InitCommon /\ [][NextSummary]_vars

\* The caller's turn has been through Summarize (the model call returned or
\* raised)
RanSummarize(c) ==
    /\ turn[c].pc \in {"graph_done", "raised"}
    /\ Summarized(turn[c].path)

\* C20 (as claimed): the summary is rolling across the turns of a thread:
\* when Summarize runs on a thread where an earlier turn produced a summary,
\* its prior-summary input is that summary (non-empty) and the model is
\* asked to extend it; a fresh summary is requested only when none was
\* produced before.
C20_Claim ==
    \A c \in Callers :
        RanSummarize(c) =>
            /\ turn[c].earlier # "" =>
                  /\ turn[c].prior = turn[c].earlier
                  /\ turn[c].prompt = "extend"
            /\ turn[c].prompt = "create" => turn[c].earlier = ""

---------------------------------------------------------------------------
(* SpecLong: one caller runs up to MaxLongTurns turns one after another on *)
(* the thread "default", long enough for the store to reach its bound and  *)
(* for a read to meet its limit.  The graph answers a greeting, or a model *)
(* call of it raises; at most MaxFailed turns of a run fail.  `ret` is a   *)
(* history variable: the number of turns that have failed.                 *)

Failed == IF ret.op = "failed" THEN ret.of ELSE 0

MayFail == Failed < MaxFailed

LongSums(messages) == {sum \in SumsFor(messages) : MayFail \/ sum.kind # "raise"}

LongEnvs == {env \in RaceEnvs : MayFail \/ env.reply.kind # "raise"}

RanCounting(c, ran) ==
    /\ turn' = [turn EXCEPT ![c] = ran]
    /\ ret' = IF ran.pc = "raised" THEN [op |-> "failed", of |-> Failed + 1] ELSE ret

\* RunGraph, counting the turns that fail
RunGraphCounting(c) ==
    /\ turn[c].pc = "merged"
    /\ \E sum \in LongSums(turn[c].input.messages), env \in LongEnvs :
          RanCounting(c, Ran(c, sum, env))
    /\ UNCHANGED <<conversation_memory, appended, turns, lockVars, node>>

NextLong ==
    \/ turns["default"] < MaxLongTurns /\ Begin("c1", "default")
    \/ SaveUser("c1")
    \/ RunGraphCounting("c1")
    \/ SaveAi("c1")

SpecLong == InitCommon /\ [][NextLong]_vars

\* The stored entries take the roles user, assistant, user, ... in turn
Alternates(entries) ==
    \A i \in 1..Len(entries) :
        entries[i].role = IF i % 2 = 1 THEN "user" ELSE "assistant"

\* C25: in a run of successful turns on one thread, after the n-th turn the
\* stored history holds 2n entries (two more than after the turn before) or
\* the 50 the store keeps; its roles alternate, beginning with user and
\* ending with assistant, and the entry before the last is the turn's user
\* message; so it is after the oldest entries were trimmed away, too.
C25_StoredHistoryAlternates ==
    \A c \in Callers :
        (turn[c].pc = "returned" /\ Failed = 0) =>
            LET h == HistoryOf(conversation_memory, turn[c].thread_id)
            IN /\ Len(h) = Min(2 * turn[c].n, MaxStored)
               /\ Alternates(h)
               /\ h[Len(h) - 1] = Stored("user", Query(turn[c].n))
               /\ h[Len(h)].role = "assistant"

\* A successful turn has ended after the store dropped its oldest entries
C25_Witness ==
    /\ turn["c1"].pc = "returned" /\ Failed = 0
    /\ Len(appended["default"]) > MaxStored
    /\ Len(HistoryOf(conversation_memory, "default")) = MaxStored

\* The thread of caller c's turn held at least 5 entries when the turn began
\* (the turn has appended its user message since, and nothing else has been
\* appended)
HeldFiveBefore(c) == Len(appended[turn[c].thread_id]) - 1 >= SummarizeOver

\* C26: the stored history of a thread is never compacted (it is what was
\* appended, less what the bound of 50 dropped); every turn on a thread that
\* held at least 5 stored messages goes through summarize, with a
\* summarization model call, and summarize starts from at most 21 messages.
C26_SummarizeOnceFiveStored ==
    \A c \in Callers :
        turn[c].pc \in {"graph_done", "raised"} =>
            /\ HistoryOf(conversation_memory, turn[c].thread_id)
                  = LastN(appended[turn[c].thread_id], MaxStored)
            /\ HeldFiveBefore(c) =>
                  /\ Summarized(turn[c].path)
                  /\ turn[c].calls # <<>> /\ turn[c].calls[1] = "llm:summary"
                  /\ turn[c].count <= DefaultLimit + 1

\* summarize has run on 21 messages, on a thread that holds the 50 entries
\* the store keeps
C26_Witness ==
    /\ turn["c1"].pc = "graph_done"
    /\ HeldFiveBefore("c1")
    /\ turn["c1"].count = DefaultLimit + 1
    /\ Len(HistoryOf(conversation_memory, "default")) = MaxStored

---------------------------------------------------------------------------
(* The text cleaners of nodes.py:301-360.  A text is a sequence of tokens: *)
(* one-character strings, and the literals the cleaners look for, each as  *)
(* one token; "(backtick)" is the backtick character and "(bullet)" the    *)
(* bullet glyph.                                                           *)

Whitespace == {" ", "\n"}

RECURSIVE LStrip(_)
LStrip(s) == IF s # <<>> /\ Head(s) \in Whitespace THEN LStrip(Tail(s)) ELSE s

RECURSIVE RStrip(_)
RStrip(s) ==
    IF s # <<>> /\ s[Len(s)] \in Whitespace THEN RStrip(SubSeq(s, 1, Len(s) - 1)) ELSE s

\* str.strip()
Strip(s) == RStrip(LStrip(s))

\* The first index from i on whose token is not in `set` (Len(s) + 1 when
\* there is none): where a greedy run of `set` that starts at i ends
RECURSIVE RunEnd(_, _, _)
RunEnd(s, i, set) ==
    IF i <= Len(s) /\ s[i] \in set THEN RunEnd(s, i + 1, set) ELSE i

\* The index of the last newline of s[lo..hi-1], 0 when there is none
LastNewline(s, lo, hi) ==
    LET at == {k \in lo..(hi - 1) : s[k] = "\n"}
    IN IF at = {} THEN 0 ELSE CHOOSE k \in at : \A m \in at : m <= k

\* re.sub(r'\n{3,}', '\n\n', s)  (nodes.py:332, 355)
RECURSIVE CollapseFrom(_, _)
CollapseFrom(s, i) ==
    IF i > Len(s) THEN <<>>
    ELSE IF s[i] = "\n"
    THEN LET j == RunEnd(s, i, {"\n"})
         IN (IF j - i >= 3 THEN <<"\n", "\n">> ELSE SubSeq(s, i, j - 1))
                \o CollapseFrom(s, j)
    ELSE <<s[i]>> \o CollapseFrom(s, i + 1)

CollapseBlankLines(s) == CollapseFrom(s, 1)

\* nodes.py:345-346
RemoveSqlResultsPrefix(s) ==
    IF s # <<>> /\ s[1] = "SQL Results:" THEN Strip(Tail(s)) ELSE s

\* nodes.py:349: re.sub(r'^Query Results \(\d+ rows\):\s*\n', '', s).  The
\* greedy \s* runs over the whitespace after the banner and gives back
\* until a newline follows: the match ends with the last newline of the run.
RemoveBanner(s) ==
    IF s # <<>> /\ s[1] = "Query Results (2 rows):"
    THEN LET k == LastNewline(s, 2, RunEnd(s, 2, Whitespace))
         IN IF k # 0 THEN SubSeq(s, k + 1, Len(s)) ELSE s
    ELSE s

\* nodes.py:352: re.sub(r'^-+\s*$', '', s, flags=re.MULTILINE), from index i.
\* At a line start, the dashes and the whitespace after them are matched up
\* to the end of the text, or else up to (not including) the last newline of
\* that whitespace, where $ holds; the newline itself stays.
RECURSIVE RemoveDashLines(_, _)
RemoveDashLines(s, i) ==
    IF i > Len(s) THEN <<>>
    ELSE IF s[i] = "-" /\ (i = 1 \/ s[i - 1] = "\n")
    THEN LET d == RunEnd(s, i, {"-"})
             r == RunEnd(s, d, Whitespace)
             k == LastNewline(s, d, r)
         IN IF r > Len(s) THEN <<>>
            ELSE IF k # 0 THEN RemoveDashLines(s, k)
            ELSE <<s[i]>> \o RemoveDashLines(s, i + 1)
    ELSE <<s[i]>> \o RemoveDashLines(s, i + 1)

\* nodes.py:340-360
clean_sql_result_formatting(sql_result) ==
    Strip(CollapseBlankLines(
        RemoveDashLines(RemoveBanner(RemoveSqlResultsPrefix(sql_result)), 1)))

\* The index of the first token t of s
First(s, t) == CHOOSE i \in 1..Len(s) : s[i] = t /\ \A j \in 1..(i - 1) : s[j] # t

Holds(s, t) == \E i \in 1..Len(s) : s[i] = t

\* nodes.py:301-306
remove_sources_from_response(response) ==
    IF Holds(response, "Sources:")
    THEN Strip(SubSeq(response, 1, First(response, "Sources:") - 1))
    ELSE response

\* nodes.py:314-315
RemoveAnswerLabel(s) ==
    IF s # <<>> /\ s[1] = "Answer:" THEN Strip(Tail(s)) ELSE s

\* nodes.py:318-319
RemoveRagPrefix(s) ==
    IF Holds(s, "RAG Analysis Results:")
    THEN Strip(SelectSeq(s, LAMBDA t : t # "RAG Analysis Results:"))
    ELSE s

\* n asterisks stand at index i
Stars(s, i, n) == i + n - 1 <= Len(s) /\ \A m \in i..(i + n - 1) : s[m] = "*"

\* nodes.py:323, 326: re.sub(r'\*\*(.*?)\*\*', r'\1', s) for n = 2 and
\* re.sub(r'\*(.*?)\*', r'\1', s) for n = 1, from index i: an opening marker
\* is paired with the nearest closing one on the same line
RECURSIVE RemoveEmphasis(_, _, _)
RemoveEmphasis(s, i, n) ==
    IF i > Len(s) THEN <<>>
    ELSE LET closing == {j \in (i + n)..Len(s) :
                            /\ Stars(s, j, n)
                            /\ \A m \in (i + n)..(j - 1) : s[m] # "\n"}
         IN IF Stars(s, i, n) /\ closing # {}
            THEN LET j == CHOOSE c \in closing : \A m \in closing : c <= m
                 IN SubSeq(s, i + n, j - 1) \o RemoveEmphasis(s, j + n, n)
            ELSE <<s[i]>> \o RemoveEmphasis(s, i + 1, n)

\* nodes.py:329: re.sub(r'^- ', '• ', s, flags=re.MULTILINE)
Bullets(s) ==
    [i \in 1..Len(s) |->
        IF s[i] = "-" /\ (i = 1 \/ s[i - 1] = "\n") /\ i < Len(s) /\ s[i + 1] = " "
        THEN "(bullet)" ELSE s[i]]

\* nodes.py:335: replace('```', '').replace('`', '')
RemoveFences(s) == SelectSeq(s, LAMBDA t : t # "(backtick)")

\* nodes.py:309-337
clean_markdown_formatting(response) ==
    Strip(RemoveFences(CollapseBlankLines(Bullets(
        RemoveEmphasis(
            RemoveEmphasis(RemoveRagPrefix(RemoveAnswerLabel(response)), 1, 2),
            1, 1)))))

\* nodes.py:203-208: the cleaning call_rag_tool applies to a result
CleanRag(text) == clean_markdown_formatting(remove_sources_from_response(text))

---------------------------------------------------------------------------
(* SpecText: a cleaner applied to a text drawn in Init, and once more to   *)
(* its own output.                                                         *)

SqlTokens == {"SQL Results:", "Query Results (2 rows):", "-", " ", "\n", "x"}
RagTokens == {"Answer:", "Sources:", "RAG Analysis Results:", "*", "(backtick)", "-", " ", "\n", "x"}

Texts(tokens, n) == UNION {[1..k -> tokens] : k \in 0..n}

\* "Query Results (2 rows):\nid|name\n----\n1|a\n2|b"
BannerExample ==
    <<"Query Results (2 rows):", "\n", "id|name", "\n", "-", "-", "-", "-", "\n",
      "1|a", "\n", "2|b">>

InitText ==
    /\ InitStore
    /\ InitLockVars
    /\ InitTurnVars
    /\ node \in {[pc |-> "text", fn |-> "sql", input |-> s] :
                    s \in Texts(SqlTokens, MaxSqlText) \cup {BannerExample}}
            \cup {[pc |-> "text", fn |-> "rag", input |-> s] :
                    s \in Texts(RagTokens, MaxRagText)}

Cleaned(fn, input, once) ==
    [pc |-> "cleaned", fn |-> fn, input |-> input, once |-> once,
     twice |-> IF fn = "sql" THEN clean_sql_result_formatting(once) ELSE CleanRag(once)]

CleanSql ==
    /\ node.pc = "text" /\ node.fn = "sql"
    /\ node' = Cleaned("sql", node.input, clean_sql_result_formatting(node.input))
    /\ UNCHANGED <<storeVars, lockVars, turnVars>>

CleanRagText ==
    /\ node.pc = "text" /\ node.fn = "rag"
    /\ node' = Cleaned("rag", node.input, CleanRag(node.input))
    /\ UNCHANGED <<storeVars, lockVars, turnVars>>

NextText == CleanSql \/ CleanRagText

SpecText == InitText /\ [][NextText]_vars

\* The lines of a text: its tokens between newlines
RECURSIVE Lines(_)
Lines(s) ==
    IF ~Holds(s, "\n") THEN <<s>>
    ELSE <<SubSeq(s, 1, First(s, "\n") - 1)>> \o Lines(SubSeq(s, First(s, "\n") + 1, Len(s)))

IsBannerLine(l) == l = <<"Query Results (2 rows):">>
IsDashLine(l) == l # <<>> /\ \A i \in 1..Len(l) : l[i] = "-"

\* C21 (as claimed): result cleaning removes the leading banner line and
\* every line of dashes without leaving a blank line in its place: the text
\* with lines "Query Results (2 rows):", "id|name", "----", "1|a", "2|b" is
\* cleaned to exactly the lines "id|name", "1|a", "2|b".
C21_Claim ==
    (node.pc = "cleaned" /\ node.fn = "sql" /\ node.input = BannerExample) =>
        /\ node.once = <<"id|name", "\n", "1|a", "\n", "2|b">>
        /\ Lines(node.once) =
              SelectSeq(Lines(node.input), LAMBDA l : ~IsBannerLine(l) /\ ~IsDashLine(l))

\* C22 (as claimed): context-retrieval cleaning (remove_sources_from_response
\* followed by clean_markdown_formatting) is idempotent: cleaning the
\* cleaned text returns it unchanged.
C22_Claim ==
    (node.pc = "cleaned" /\ node.fn = "rag") => node.twice = node.once

---------------------------------------------------------------------------
(* The tool client: mcp_client.py, with the server it calls (server.py,    *)
(* tools.py).  A text is a sequence of tokens, f-string concatenation is   *)
(* \o.  A JSON object is a record; a field that is null holds <<>>, a      *)
(* field that is a text holds <<text>>, and an absent field is not in the  *)
(* record's DOMAIN.                                                        *)

Tools == {"rag_query_tool", "sql_query_tool"}

\* tools.py:19-47, 53-98: the text a tool returns
ToolText(name, outcome) ==
    IF name = "rag_query_tool"
    THEN IF outcome = "reported_error" THEN <<"Error: ", "RAG system not initialized">>
         ELSE IF outcome = "tool_exception" THEN <<"Error executing RAG query", ": ", "e">>
         ELSE IF outcome = "ok_mentions_error"
         THEN <<"Answer: ", "the log says ", "Error:", " disk full", "\n\n">>
         ELSE <<"Answer: ", "answer", "\n\n">>
    ELSE IF outcome = "reported_error" THEN <<"Error: ", "Could not connect to database">>
         ELSE IF outcome = "tool_exception" THEN <<"SQL Query Error", ": ", "e">>
         ELSE IF outcome = "ok_mentions_error"
         THEN <<"Query Results (", "1", " rows):\n\n", "note", "\n", "----", "\n",
                "Error:", " disk full", "\n">>
         ELSE <<"Query executed successfully. No results returned.">>

\* server.py:71-74
ToolCallResponse(result, success, error) ==
    [result |-> <<result>>, success |-> success, error |-> error]

\* server.py:137-164: the bodies call_tool answers with.  The text of a tool
\* goes out as a result with success=True whatever it says; the except
\* branch answers with an empty result and the exception's text, which may
\* be empty.
ServerBodies(name) ==
    {ToolCallResponse(ToolText(name, outcome), TRUE, <<>>) :
        outcome \in ToolSucceeded \cup ToolReported}
    \cup {ToolCallResponse(<<>>, FALSE, <<e>>) : e \in {<<"e">>, <<>>}}

\* A body that declares no error field, or neither field
BareBodies(name) == {[result |-> <<ToolText(name, "ok")>>], [success |-> TRUE]}

\* How requests.post ends (mcp_client.py:37-41, 71-75): a response with
\* status 200 and a JSON object as body, a response with another status, or
\* an exception of requests (connection refused, the 30-second timeout)
HttpOutcomes(name) ==
    {[kind |-> "response", status |-> "200", body |-> b] :
        b \in ServerBodies(name) \cup BareBodies(name)}
    \cup {[kind |-> "response", status |-> c, text |-> "body"] : c \in {"404", "500"}}
    \cup {[kind |-> "exception", detail |-> d] : d \in {"refused", "timed out"}}

\* mcp_client.py:28-35, 64-69: the payload of the one request of a call
Payload(name, query) ==
    IF name = "rag_query_tool"
    THEN [name |-> name, arguments |-> [query |-> query, top_k |-> 5]]
    ELSE [name |-> name, arguments |-> [query |-> query]]

\* mcp_client.py:27-51 and 63-85 (the two methods differ in the payload
\* only): the dict returned for the way the request ended
ClientResult(http) ==
    IF http.kind = "exception"
    THEN [error |-> <<(<<"Connection error: ", http.detail>>)>>]
    ELSE IF http.status = "200"
    THEN http.body
    ELSE [error |-> <<(<<"HTTP ", http.status, ": ", http.text>>)>>]

rag_query(http) == ClientResult(http)

sql_query(http) == ClientResult(http)

\* mcp_client.py:111-116, 131-136: result.get("result", default) after the
\* test of the error field
TextOf(result, default) ==
    IF "error" \in DOMAIN result /\ result.error # <<>>
    THEN <<"Error: ">> \o result.error[1]
    ELSE IF "result" \in DOMAIN result THEN result.result[1] ELSE default

\* mcp_client.py:97-116
rag_query_via_mcp(http) == TextOf(rag_query(http), <<"No answer found">>)

\* mcp_client.py:118-136
sql_query_via_mcp(http) == TextOf(sql_query(http), <<"No results found">>)

(* SpecClient: up to MaxClientCalls calls of the two wrapper functions,    *)
(* each meeting one way the HTTP request can end; `node` holds the log of  *)
(* the calls made.                                                         *)

InitClient ==
    /\ InitStore /\ InitLockVars /\ InitTurnVars
    /\ node = [pc |-> "client", log |-> <<>>]

Called(name, query, http, text) ==
    node' = [node EXCEPT !.log =
        Append(@, [name |-> name, posts |-> <<Payload(name, query)>>,
                   http |-> http, text |-> text])]

CallRagQuery ==
    /\ Len(node.log) < MaxClientCalls
    /\ \E http \in HttpOutcomes("rag_query_tool") :
          Called("rag_query_tool", Query(1), http, rag_query_via_mcp(http))
    /\ UNCHANGED <<storeVars, lockVars, turnVars>>

CallSqlQuery ==
    /\ Len(node.log) < MaxClientCalls
    /\ \E http \in HttpOutcomes("sql_query_tool") :
          Called("sql_query_tool", "sql_query", http, sql_query_via_mcp(http))
    /\ UNCHANGED <<storeVars, lockVars, turnVars>>

NextClient == CallRagQuery \/ CallSqlQuery

SpecClient == InitClient /\ [][NextClient]_vars

\* The request was answered with status 200 and a null or absent error field
CleanReply(http) ==
    /\ http.kind = "response" /\ http.status = "200"
    /\ ("error" \in DOMAIN http.body => http.body.error = <<>>)

\* The text is "Error: " followed by a detail
IsErrorText(text) == text # <<>> /\ text[1] = "Error: "

\* C28 (as claimed): however the HTTP request of a call ends, the wrapper
\* returns a text, having sent exactly one request; the text is "Error: "
\* followed by the error detail exactly when the request was not answered
\* with status 200 and a null or absent error field.
C28_Claim ==
    \A i \in 1..Len(node.log) :
        /\ Len(node.log[i].posts) = 1
        /\ IsErrorText(node.log[i].text) <=> ~CleanReply(node.log[i].http)

---------------------------------------------------------------------------
(* QueryAgentService: query_agent_service.py, the second workflow          *)
(*   classify_query -> [extract_parameters -> execute_tools ->             *)
(*                      generate_response | handle_error] -> END           *)
(* An error text is a sequence of tokens, None the empty sequence (both    *)
(* are false where the code tests `state.get("error")`).                   *)

\* query_agent_service.py:372-380: the state process_query starts from
InitialAgentState(query) ==
    [query |-> query, query_type |-> "", extracted_params |-> [shape |-> "object", min_clarity |-> "absent"],
     tool_results |-> {}, final_response |-> "", error |-> <<>>]

\* query_agent_service.py:115-135: the category for a classification text,
\* given the set of category words the lower-cased text holds
QueryTypeOf(words) ==
    IF "camera_search" \in words THEN "camera_search"
    ELSE IF "performance" \in words THEN "performance_analysis"
    ELSE IF "configuration" \in words THEN "configuration_info"
    ELSE IF "optimization" \in words THEN "optimization"
    ELSE IF "health" \in words THEN "health_status"
    ELSE IF "comparison" \in words THEN "comparison"
    ELSE "camera_search"

\* query_agent_service.py:89-139: _classify_query, given how the model call
\* of line 112 ended
classify_query(state, llm) ==
    IF llm.kind = "raise"
    THEN [state EXCEPT !.error = <<"Error ", "classifying", " query: ", llm.detail>>,
                       !.query_type = "invalid"]
    ELSE IF "invalid" \in llm.words
    THEN [state EXCEPT !.error = <<"Query is ", "not related", " to camera feed analysis">>,
                       !.query_type = "invalid"]
    ELSE [state EXCEPT !.query_type = QueryTypeOf(llm.words)]

\* query_agent_service.py:141-145
should_extract_params(state) == IF state.error # <<>> THEN "error" ELSE "extract"

\* query_agent_service.py:211-238: the parameters the patterns find
extract_params_fallback(query) ==
    [shape |-> "object", min_clarity |-> IF query.best_clarity THEN "80" ELSE "absent"]

\* query_agent_service.py:147-209: _extract_parameters.  The value of
\* json.loads is stored whatever it is; a model call that raises or a text
\* that does not parse leads to the fallback.
extract_parameters(state, llm) ==
    IF llm.kind \in {"raise", "no_json"}
    THEN [state EXCEPT !.extracted_params = extract_params_fallback(state.query)]
    ELSE [state EXCEPT !.extracted_params = llm.value]

\* The keys of tool_results the branch of the query type fills
\* (query_agent_service.py:247-296; the choices that depend on parameters
\* other than min_clarity are taken as for an absent parameter)
ToolKeys(state) ==
    LET t == state.query_type
        params == state.extracted_params
    IN IF t = "camera_search"
       THEN {"cameras"} \cup
            (IF params.min_clarity = "80" \/ state.query.best THEN {"top_cameras"} ELSE {})
       ELSE IF t = "performance_analysis" THEN {"performance", "statistics"}
       ELSE IF t = "configuration_info" THEN {"encoder_configs", "decoder_configs"}
       ELSE IF t = "optimization" THEN {"bandwidth_suggestions", "clarity_opportunities"}
       ELSE IF t = "health_status" THEN {"health_report", "statistics"}
       ELSE IF t = "comparison" THEN {"region_comparison", "config_analysis"}
       ELSE {}

\* The branch of the query type raises by itself: params.get on a value that
\* is not a dict (AttributeError), or `None >= 80` at line 262 (TypeError)
ParamsRaise(state) ==
    LET t == state.query_type
        params == state.extracted_params
    IN \/ params.shape # "object"
            /\ t \in {"camera_search", "performance_analysis", "configuration_info",
                      "optimization"}
       \/ params.shape = "object" /\ t = "camera_search" /\ params.min_clarity = "null"

\* query_agent_service.py:240-305: _execute_tools, given whether a tool call
\* raises
execute_tools(state, tools) ==
    IF tools.kind = "raise" \/ ParamsRaise(state)
    THEN [state EXCEPT !.error = <<"Error ", "executing tools", ": ", "e">>]
    ELSE [state EXCEPT !.tool_results = ToolKeys(state)]

\* query_agent_service.py:307-343: _generate_response, given how the model
\* call of line 336 ended; `text` is the content after strip()
generate_response(state, llm) ==
    IF llm.kind = "raise"
    THEN [state EXCEPT !.error = <<"Error ", "generating response", ": ", llm.detail>>]
    ELSE [state EXCEPT !.final_response = llm.text]

\* str.lower on the tokens of an error text
Lower(error) ==
    [i \in 1..Len(error) |->
        IF error[i] = "Error " THEN "error "
        ELSE IF error[i] = "Query is " THEN "query is " ELSE error[i]]

\* query_agent_service.py:345-368: _handle_error
handle_error(state) ==
    LET error == Lower(IF state.error = <<>> THEN <<"Unknown error occurred">> ELSE state.error)
    IN [state EXCEPT !.final_response =
          IF Holds(error, "not related") THEN "error_responses.invalid"
          ELSE IF Holds(error, "classifying") THEN "error_responses.classification"
          ELSE IF Holds(error, "executing tools") THEN "error_responses.tools"
          ELSE IF Holds(error, "generating response") THEN "error_responses.response"
          ELSE "apology_with_error"]

(* SpecAgent: process_query on a drawn query, node by node as the compiled *)
(* workflow runs them (query_agent_service.py:59-87), each model call and  *)
(* the tool calls ending in every way they can.  `node` holds the          *)
(* AgentState, the nodes visited, and at the end what process_query        *)
(* returned.                                                               *)

Queries ==
    {[text |-> "query", best |-> b, best_clarity |-> c] :
        b \in BOOLEAN, c \in BOOLEAN} \ {[text |-> "query", best |-> FALSE, best_clarity |-> TRUE]}

Categories ==
    {"invalid", "camera_search", "performance", "configuration", "optimization",
     "health", "comparison"}

\* How the classification call ends: it raises, or its text holds up to
\* MaxWords of the category words
ClassifyOutcomes ==
    {[kind |-> "raise", detail |-> "timeout"]}
    \cup {[kind |-> "text", words |-> w] :
            w \in {x \in SUBSET Categories : Cardinality(x) <= MaxWords}}

\* How the extraction call ends: it raises, its text holds no JSON, or the
\* JSON parsed is an object (min_clarity absent, null or a number) or
\* another value
ExtractOutcomes ==
    {[kind |-> "raise"], [kind |-> "no_json"]}
    \cup {[kind |-> "json", value |-> [shape |-> "object", min_clarity |-> m]] :
            m \in {"absent", "null", "80"}}
    \cup {[kind |-> "json", value |-> [shape |-> "other", min_clarity |-> "absent"]]}

ToolsOutcomes == {[kind |-> "ok"], [kind |-> "raise"]}

\* How the response call ends: it raises, or returns a text, which may be
\* blank
ResponseOutcomes ==
    {[kind |-> "raise", detail |-> "timeout"]}
    \cup {[kind |-> "text", text |-> t] : t \in {"answer", ""}}

InitAgent ==
    /\ InitStore /\ InitLockVars /\ InitTurnVars
    /\ \E query \in Queries :
          node = [pc |-> "classify_query", state |-> InitialAgentState(query),
                  visited |-> <<>>, response |-> <<>>]

\* The workflow moves on from node `name`, leaving the AgentState `state`
Visited(name, state, next) ==
    node' = [node EXCEPT !.pc = next, !.state = state, !.visited = Append(@, name)]

ClassifyQuery ==
    /\ node.pc = "classify_query"
    /\ \E llm \in ClassifyOutcomes :
          LET state == classify_query(node.state, llm)
          IN Visited("classify_query", state,
                     IF should_extract_params(state) = "error"
                     THEN "handle_error" ELSE "extract_parameters")
    /\ UNCHANGED <<storeVars, lockVars, turnVars>>

ExtractParameters ==
    /\ node.pc = "extract_parameters"
    /\ \E llm \in ExtractOutcomes :
          Visited("extract_parameters", extract_parameters(node.state, llm), "execute_tools")
    /\ UNCHANGED <<storeVars, lockVars, turnVars>>

ExecuteTools ==
    /\ node.pc = "execute_tools"
    /\ \E tools \in ToolsOutcomes :
          Visited("execute_tools", execute_tools(node.state, tools), "generate_response")
    /\ UNCHANGED <<storeVars, lockVars, turnVars>>

GenerateResponse ==
    /\ node.pc = "generate_response"
    /\ \E llm \in ResponseOutcomes :
          Visited("generate_response", generate_response(node.state, llm), "END")
    /\ UNCHANGED <<storeVars, lockVars, turnVars>>

HandleError ==
    /\ node.pc = "handle_error"
    /\ Visited("handle_error", handle_error(node.state), "END")
    /\ UNCHANGED <<storeVars, lockVars, turnVars>>

\* query_agent_service.py:382-384: no node lets an exception out (each
\* catches its own), so app.invoke returns and its final_response is handed
\* back
ProcessQueryReturns ==
    /\ node.pc = "END"
    /\ node' = [node EXCEPT !.pc = "returned", !.response = <<node.state.final_response>>]
    /\ UNCHANGED <<storeVars, lockVars, turnVars>>

NextAgent ==
    \/ ClassifyQuery
    \/ ExtractParameters
    \/ ExecuteTools
    \/ GenerateResponse
    \/ HandleError
    \/ ProcessQueryReturns

SpecAgent == InitAgent /\ [][NextAgent]_vars

\* The workflow went through node `name`
Went(name) == \E i \in 1..Len(node.visited) : node.visited[i] = name

\* The error recorded is the one of the step named by `phrase`
Recorded(phrase) == Holds(node.state.error, phrase)

\* C29 (as claimed): every recorded error ends at handle_error.  When the
\* workflow has ended with an error recorded by execute_tools or by
\* generate_response, the final response is the canned message for 'tools'
\* or 'response'; when it has ended with a classification error or an
\* invalid query, the final response is that error's canned message and
\* none of extract_parameters, execute_tools, generate_response has run.
C29_Claim ==
    (node.pc \in {"END", "returned"} /\ node.state.error # <<>>) =>
        /\ Went("handle_error")
        /\ Recorded("executing tools") =>
              node.state.final_response = "error_responses.tools"
        /\ Recorded("generating response") =>
              node.state.final_response = "error_responses.response"
        /\ Recorded("classifying") =>
              /\ node.state.final_response = "error_responses.classification"
              /\ node.visited = <<"classify_query", "handle_error">>
        /\ Recorded("not related") =>
              /\ node.state.final_response = "error_responses.invalid"
              /\ node.visited = <<"classify_query", "handle_error">>

\* C30 (as claimed): process_query raises for no query and no combination
\* of outcomes of its four steps, and the text it returns is not empty.
C30_Claim ==
    node.pc = "returned" =>
        /\ Len(node.response) = 1
        /\ node.response[1] # ""

---------------------------------------------------------------------------
(* SpecLock: the store's operations statement by statement, called from    *)
(* two threads.  The store starts empty, or as 49 or 50 appends to         *)
(* "default" leave it, so that the next appends trim.  The callers make    *)
(* up to MaxOps calls between them.                                        *)

Filled(k) ==
    [i \in 1..k |-> Stored(IF i % 2 = 1 THEN "user" ELSE "assistant", Text(i))]

InitLock ==
    /\ \E k \in {0, MaxStored - 1, MaxStored} :
          /\ conversation_memory =
                [t \in (IF k = 0 THEN {} ELSE {"default"}) |-> Filled(k)]
          /\ appended = [t \in ThreadIds |-> IF t = "default" THEN Filled(k) ELSE <<>>]
    /\ ret = NoRet
    /\ memory_lock = NoOne
    /\ proc = [p \in Callers |-> [pc |-> "idle", calls |-> 0]]
    /\ node = NoNode
    /\ InitTurnVars

LockLimits == {DefaultLimit, MaxStored + 1}

\* The `with` block entered without waiting for the lock
LockNeverBlocks == TRUE

\* `with memory_lock:` (graph_service.py:31, 51) enters only when no thread
\* holds the lock

LockIsFree == memory_lock = NoOne

At(p, pc) == proc[p].pc = pc
Goto(p, pc) == proc' = [proc EXCEPT ![p].pc = pc]

CallsMade == proc["c1"].calls + proc["c2"].calls

\* save_message(thread_id, role, content) is called
CallSave(p, t, role) ==
    /\ At(p, "idle")
    /\ CallsMade < MaxOps
    /\ proc' = [proc EXCEPT ![p] =
          [pc |-> "acquire", calls |-> proc[p].calls + 1, op |-> "save", thread_id |-> t,
           role |-> role, content |-> [turn |-> proc[p].calls + 1, text |-> p]]]
    /\ UNCHANGED <<storeVars, memory_lock, node, turnVars>>

\* get_conversation_history(thread_id, limit) is called
CallGet(p, t, limit) ==
    /\ At(p, "idle")
    /\ CallsMade < MaxOps
    /\ proc' = [proc EXCEPT ![p] =
          [pc |-> "acquire", calls |-> proc[p].calls + 1, op |-> "get", thread_id |-> t,
           limit |-> limit]]
    /\ UNCHANGED <<storeVars, memory_lock, node, turnVars>>

\* graph_service.py:31, 51
Acquire(p) ==
    /\ At(p, "acquire")
    /\ LockIsFree
    /\ memory_lock' = p
    /\ Goto(p, IF proc[p].op = "save" THEN "save_check" ELSE "get_check")
    /\ UNCHANGED <<storeVars, node, turnVars>>

\* graph_service.py:52
SaveCheck(p) ==
    /\ At(p, "save_check")
    /\ Goto(p, IF proc[p].thread_id \notin DOMAIN conversation_memory
               THEN "save_create" ELSE "save_append")
    /\ UNCHANGED <<storeVars, memory_lock, node, turnVars>>

\* graph_service.py:53
SaveCreate(p) ==
    /\ At(p, "save_create")
    /\ conversation_memory' =
          [t \in DOMAIN conversation_memory \cup {proc[p].thread_id} |->
              IF t = proc[p].thread_id THEN <<>> ELSE conversation_memory[t]]
    /\ Goto(p, "save_append")
    /\ UNCHANGED <<appended, ret, memory_lock, node, turnVars>>

\* graph_service.py:55-59
SaveAppend(p) ==
    /\ At(p, "save_append")
    /\ conversation_memory' =
          [conversation_memory EXCEPT ![proc[p].thread_id] =
              Append(@, Stored(proc[p].role, proc[p].content))]
    /\ appended' = Logged(appended, proc[p].thread_id, proc[p].role, proc[p].content)
    /\ Goto(p, "save_len")
    /\ UNCHANGED <<ret, memory_lock, node, turnVars>>

\* graph_service.py:62
SaveLen(p) ==
    /\ At(p, "save_len")
    /\ Goto(p, IF Len(conversation_memory[proc[p].thread_id]) > MaxStored
               THEN "save_slice" ELSE "release")
    /\ UNCHANGED <<storeVars, memory_lock, node, turnVars>>

\* graph_service.py:63, the right-hand side
SaveSlice(p) ==
    /\ At(p, "save_slice")
    /\ proc' = [proc EXCEPT
          ![p] = [pc |-> "save_assign", calls |-> proc[p].calls, op |-> "save",
                  thread_id |-> proc[p].thread_id, role |-> proc[p].role,
                  content |-> proc[p].content,
                  kept |-> PyLast(conversation_memory[proc[p].thread_id], MaxStored)]]
    /\ UNCHANGED <<storeVars, memory_lock, node, turnVars>>

\* graph_service.py:63, the assignment
SaveAssign(p) ==
    /\ At(p, "save_assign")
    /\ conversation_memory' =
          [conversation_memory EXCEPT ![proc[p].thread_id] = proc[p].kept]
    /\ proc' = [proc EXCEPT
          ![p] = [pc |-> "release", calls |-> proc[p].calls, op |-> "save",
                  thread_id |-> proc[p].thread_id, role |-> proc[p].role,
                  content |-> proc[p].content]]
    /\ UNCHANGED <<appended, ret, memory_lock, node, turnVars>>

\* graph_service.py:32-33
GetCheck(p) ==
    /\ At(p, "get_check")
    /\ proc' = [proc EXCEPT
          ![p] = IF proc[p].thread_id \notin DOMAIN conversation_memory
                 THEN [pc |-> "release", calls |-> proc[p].calls, op |-> "get",
                       thread_id |-> proc[p].thread_id, limit |-> proc[p].limit,
                       messages |-> <<>>, log |-> appended[proc[p].thread_id]]
                 ELSE [proc[p] EXCEPT !.pc = "get_select"]]
    /\ UNCHANGED <<storeVars, memory_lock, node, turnVars>>

\* graph_service.py:36-47: the entries are selected and converted.  `log` is
\* a history variable: what had been appended to the thread at this moment.
GetSelect(p) ==
    /\ At(p, "get_select")
    /\ proc' = [proc EXCEPT
          ![p] = [pc |-> "release", calls |-> proc[p].calls, op |-> "get",
                  thread_id |-> proc[p].thread_id, limit |-> proc[p].limit,
                  messages |-> ToMessages(SelectHistory(
                      HistoryOf(conversation_memory, proc[p].thread_id), proc[p].limit)),
                  log |-> appended[proc[p].thread_id]]]
    /\ UNCHANGED <<storeVars, memory_lock, node, turnVars>>

\* The `with` block is left and the call returns
Release(p) ==
    /\ At(p, "release")
    /\ memory_lock' = NoOne
    /\ Goto(p, "idle")
    /\ UNCHANGED <<storeVars, node, turnVars>>

NextLock ==
    \/ \E p \in Callers, t \in ThreadIds, role \in Roles : CallSave(p, t, role)
    \/ \E p \in Callers, t \in ThreadIds, limit \in LockLimits : CallGet(p, t, limit)
    \/ \E p \in Callers : Acquire(p)
    \/ \E p \in Callers : SaveCheck(p)
    \/ \E p \in Callers : SaveCreate(p)
    \/ \E p \in Callers : SaveAppend(p)
    \/ \E p \in Callers : SaveLen(p)
    \/ \E p \in Callers : SaveSlice(p)
    \/ \E p \in Callers : SaveAssign(p)
    \/ \E p \in Callers : GetCheck(p)
    \/ \E p \in Callers : GetSelect(p)
    \/ \E p \in Callers : Release(p)

SpecLock == InitLock /\ [][NextLock]_vars

\* No caller is inside a store operation
Quiescent == \A p \in Callers : proc[p].pc \in {"idle", "acquire"}

\* Caller p holds the messages a read has selected
HasRead(p) == proc[p].pc \in {"release", "idle"} /\ proc[p].calls > 0 /\ proc[p].op = "get"

\* C10: each store operation is atomic with respect to concurrent appends
\* and reads of the same thread.  No appended message is lost: whenever no
\* operation is under way, each thread's stored history is the most recent
\* 50 of everything appended to it.  No read observes more than 50 entries
\* or a half-applied append: what a read returns is what its limit selects
\* from the most recent 50 of the entries appended before it.
C10_AtomicOperations ==
    /\ Quiescent =>
          \A t \in ThreadIds :
              HistoryOf(conversation_memory, t) = LastN(appended[t], MaxStored)
    /\ \A p \in Callers :
          HasRead(p) =>
              /\ Len(proc[p].messages) <= MaxStored
              /\ proc[p].messages =
                    ExpectedMessages(SelectHistory(LastN(proc[p].log, MaxStored), proc[p].limit))

\* C10 witness: a read of a thread waits for the lock while an append to the
\* same thread is half applied (51 entries stored, the trim still to come)
C10_Witness ==
    \E p \in Callers, q \in Callers :
        /\ proc[p].pc = "acquire" /\ proc[p].op = "get"
        /\ proc[p].limit > MaxStored
        /\ memory_lock = q /\ proc[q].pc = "save_slice"
        /\ proc[q].thread_id = proc[p].thread_id
        /\ Len(conversation_memory[proc[q].thread_id]) = MaxStored + 1

=============================================================================
